---- MODULE Spec2Model ----
(***************************************************************************)
(* Model of plugins/groups_manager.py (the dnf "groups-manager" command).  *)
(*                                                                         *)
(* Strings that the code inspects character by character (group ids,       *)
(* group names, translation arguments) are sequences of one-character      *)
(* strings.  Strings the code only stores and compares (file names,        *)
(* descriptions, language tags of already parsed translations) are TLA+    *)
(* strings.  An optional value (Python None or a value) is a sequence of   *)
(* length 0 or 1: <<>> is None and <<v>> is v.                             *)
(***************************************************************************)
EXTENDS Integers, Sequences, FiniteSets, TLC

VARIABLES
    args,         \* the command line as typed (never changes during a run)
    opts,         \* self.opts: the argparse namespace, edited by configure
    pc,           \* position of the command: configure, load, save, done, failed
    err,          \* the exception that ended the run ("" while none)
    comps,        \* self.comps.groups: the working collection
    li,           \* index of the next file of opts.load in load_input_files
    si,           \* index of the next file of opts.save in save_output_files
    file_loaded,  \* load_input_files' local flag
    out,          \* everything written so far: files and standard output
    warnings,     \* logger.warning calls of load_input_files (file names)
    errors,       \* logger.error calls of save_output_files (file names)
    value,        \* validators: the argument string
    applied,      \* validators: which function has been applied ("" = none)
    result        \* validators: what it returned or raised

vars == <<args, opts, pc, err, comps, li, si, file_loaded, out, warnings,
          errors, value, applied, result>>

runVars == <<args, opts, pc, err, comps, li, si, file_loaded, out, warnings,
             errors>>

valVars == <<value, applied, result>>

(***************************************************************************)
(* Bounds of the model.                                                    *)
(***************************************************************************)
MaxLen == 4      \* longest argument string given to a validator
MaxLoad == 1     \* most --load options on a command line (--merge adds one)
MaxSave == 1     \* most --save options on a command line (--merge adds one)

(***************************************************************************)
(* Characters.                                                             *)
(***************************************************************************)
LowerSeq == <<"a","b","c","d","e","f","g","h","i","j","k","l","m",
              "n","o","p","q","r","s","t","u","v","w","x","y","z">>

UpperSeq == <<"A","B","C","D","E","F","G","H","I","J","K","L","M",
              "N","O","P","Q","R","S","T","U","V","W","X","Y","Z">>

Range(s) == {s[k] : k \in DOMAIN s}

Lowers == Range(LowerSeq)

Uppers == Range(UpperSeq)

Digits == {"0","1","2","3","4","5","6","7","8","9"}

\* RE_GROUP_ID_VALID = "-a-z0-9_.:"
RE_GROUP_ID_VALID == {"-", "_", ".", ":"} \cup Lowers \cup Digits

\* the character class of RE_LANG, [-a-zA-Z0-9_.@]
RE_LANG_CLASS == {"-", "_", ".", "@"} \cup Lowers \cup Uppers \cup Digits

\* str.lower() on one (ASCII) character
LowerChar(c) ==
    IF c \in Uppers
    THEN LowerSeq[CHOOSE k \in DOMAIN UpperSeq : UpperSeq[k] = c]
    ELSE c

\* str.lower()
Lower(s) == [k \in DOMAIN s |-> LowerChar(s[k])]

\* re.sub('[^...]', '', s): the characters of s that are in class, in order
RECURSIVE Keep(_, _)
Keep(s, class) ==
    IF s = <<>> THEN <<>>
    ELSE IF Head(s) \in class THEN <<Head(s)>> \o Keep(Tail(s), class)
    ELSE Keep(Tail(s), class)

\* re.match(r"^[class]+$", s): one or more characters of the class; "$" also
\* matches just before one trailing newline
ReMatchPlus(class, s) ==
    LET body == IF s # <<>> /\ s[Len(s)] = "\n" THEN SubSeq(s, 1, Len(s) - 1)
                ELSE s
    IN  \/ s # <<>> /\ \A k \in DOMAIN s : s[k] \in class
        \/ body # <<>> /\ \A k \in DOMAIN body : body[k] \in class

\* position of the first sep in s, 0 when there is none
FirstIndex(s, sep) ==
    IF \E k \in DOMAIN s : s[k] = sep
    THEN CHOOSE k \in DOMAIN s : s[k] = sep /\ \A m \in 1..(k - 1) : s[m] # sep
    ELSE 0

\* str.split(sep, maxsplit): at most maxsplit splits, from the left
RECURSIVE Split(_, _, _)
Split(s, sep, maxsplit) ==
    LET k == FirstIndex(s, sep)
    IN  IF maxsplit = 0 \/ k = 0 THEN <<s>>
        ELSE <<SubSeq(s, 1, k - 1)>>
             \o Split(SubSeq(s, k + 1, Len(s)), sep, maxsplit - 1)

(***************************************************************************)
(* The validators and the id generator.  A result is a record: ok says     *)
(* whether the function returned, val is what it returned, exc names the   *)
(* error it raised.                                                        *)
(***************************************************************************)
Returned(v) == [ok |-> TRUE, val |-> v, exc |-> ""]

Raised(e) == [ok |-> FALSE, val |-> <<>>, exc |-> e]

\* maxsplit argument of value.split(':', 2)
TranslationMaxSplit == 2

group_id_type(v) ==
    IF ~ReMatchPlus(RE_GROUP_ID_VALID, v) THEN Raised("InvalidGroupId")
    ELSE Returned(v)

translation_type(v) ==
    LET data == Split(v, ":", TranslationMaxSplit)
    IN  IF Len(data) # 2 THEN Raised("InvalidTranslationFormat")
        ELSE IF ~ReMatchPlus(RE_LANG_CLASS, data[1]) THEN Raised("InvalidLanguageTag")
        ELSE Returned(<<data[1], data[2]>>)

\* text_to_id without the call of lower()
text_to_id_not_lowered(text) ==
    LET group_id == Keep(text, RE_GROUP_ID_VALID)
    IN  IF group_id = <<>> THEN Raised("EmptyDerivedIdentifier")
        ELSE Returned(group_id)

text_to_id(text) ==
    LET group_id == Keep(Lower(text), RE_GROUP_ID_VALID)
    IN  IF group_id = <<>> THEN Raised("EmptyDerivedIdentifier")
        ELSE Returned(group_id)

(***************************************************************************)
(* Optional values and Python truthiness.                                  *)
(***************************************************************************)
None == <<>>

\* "if x:" for an optional string (None and the empty string are falsy)
TruthyStr(o) == o # None /\ o[1] # ""

\* "if x:" for an optional character sequence (group id, group name)
TruthyText(o) == o # None /\ o[1] # <<>>

\* "if x:" for an optional integer (None and 0 are falsy)
TruthyInt(o) == o # None /\ o[1] # 0

\* "if x:" for a list
TruthyList(l) == l # <<>>

(***************************************************************************)
(* Group records and the documents of the model's file system.             *)
(***************************************************************************)
\* libcomps.Group(): no id, no name, no description, no display order,
\* user visible, no translations.  A name_by_lang / desc_by_lang StrDict is
\* the set of its <<lang, text>> items.
NewGroup ==
    [id |-> <<>>, name |-> <<>>, desc |-> None, display_order |-> None,
     uservisible |-> TRUE, name_by_lang |-> {}, desc_by_lang |-> {}]

IdCore == <<"c","o","r","e">>

IdDt == <<"d","t">>

IdNew == <<"n","e","w">>

NameCore == <<"C","o","r","e">>

NameOther == <<"O","t","h","e","r">>

NameDT == <<"D"," ","T">>

NameBang == <<"!","!">>

GroupCore ==
    [id |-> IdCore, name |-> NameCore, desc |-> <<"Old">>,
     display_order |-> <<3>>, uservisible |-> TRUE,
     name_by_lang |-> {<<"en", "Core">>}, desc_by_lang |-> {<<"en", "Old">>}]

GroupDt ==
    [id |-> IdDt, name |-> NameCore, desc |-> None, display_order |-> None,
     uservisible |-> FALSE, name_by_lang |-> {}, desc_by_lang |-> {}]

GroupCoreB ==
    [id |-> IdCore, name |-> NameOther, desc |-> <<"B">>,
     display_order |-> None, uservisible |-> TRUE,
     name_by_lang |-> {<<"de", "Kern">>}, desc_by_lang |-> {}]

\* files named by --load and --merge, and files named by --save
Files == {"a.xml", "b.xml"}

SaveFiles == {"out.xml"}

\* what each file holds when it can be read and parsed
FileGroups(f) == IF f = "a.xml" THEN <<GroupDt, GroupCore>> ELSE <<GroupCoreB>>

\* file_comps.fromxml_f(file_name): the parsed groups, or IOError / ParserError
fromxml_f(f) == {[ok |-> TRUE, groups |-> FileGroups(f)],
                 [ok |-> FALSE, groups |-> <<>>]}

\* self.comps.xml_f(file_name, ...): no log entries, some log entries, or
\* libcomps.XMLGenError
xml_f == {"ok", "log", "XMLGenError"}

\* self.comps += file_comps
Merge(groups, other) == groups \o other

(***************************************************************************)
(* The command line.                                                       *)
(***************************************************************************)
SeqsUpTo(S, n) == UNION {[1..k -> S] : k \in 0..n}

Opt(S) == {None} \cup {<<x>> : x \in S}

ArgSpace ==
    [load : SeqsUpTo(Files, MaxLoad),
     save : SeqsUpTo(SaveFiles, MaxSave),
     merge : Opt({"a.xml"}),
     print : BOOLEAN,
     id : Opt({IdCore, IdNew}),
     name : Opt({NameCore, NameDT, NameBang}),
     description : Opt({"X"}),
     display_order : Opt({0, 5}),
     translated_name : {<<>>, <<<<"en", "Hi">>>>},
     translated_description : {<<>>, <<<<"en", "Hi">>, <<"en", "Ho">>>>},
     visible : {"", "--user-visible", "--not-user-visible"},
     remove : BOOLEAN]

\* the value argparse gives dest "user_visible" when neither flag is on the
\* command line: the default of the first action registered for the dest,
\* a store_true action whose default is False
UserVisibleDefault == <<FALSE>>

\* the namespace argparse builds from the command line (set_argparser)
ParseArgs(a) ==
    [load |-> a.load, save |-> a.save, merge |-> a.merge, print |-> a.print,
     id |-> a.id, name |-> a.name, description |-> a.description,
     display_order |-> a.display_order,
     translated_name |-> a.translated_name,
     translated_description |-> a.translated_description,
     user_visible |-> IF a.visible = "--user-visible" THEN <<TRUE>>
                      ELSE IF a.visible = "--not-user-visible" THEN <<FALSE>>
                      ELSE UserVisibleDefault,
     remove |-> a.remove]

(***************************************************************************)
(* find_group and edit_group.                                              *)
(***************************************************************************)
\* index of the first group with this id, 0 when there is none
FirstById(groups, gid) ==
    IF \E k \in DOMAIN groups : groups[k].id = gid
    THEN CHOOSE k \in DOMAIN groups :
             groups[k].id = gid /\ \A m \in 1..(k - 1) : groups[m].id # gid
    ELSE 0

\* index of the first group with this name, 0 when there is none
FirstByName(groups, nm) ==
    IF \E k \in DOMAIN groups : groups[k].name = nm
    THEN CHOOSE k \in DOMAIN groups :
             groups[k].name = nm /\ \A m \in 1..(k - 1) : groups[m].name # nm
    ELSE 0

\* find_group looking by name first and then by id
find_group_name_first(groups, group_id, name) ==
    LET byName == IF TruthyText(name) THEN FirstByName(groups, name[1]) ELSE 0
    IN  IF byName = 0 /\ TruthyText(group_id) THEN FirstById(groups, group_id[1])
        ELSE byName

\* find_group(group_id, name): the index of the group found, 0 for None
find_group(groups, group_id, name) ==
    LET byId == IF TruthyText(group_id) THEN FirstById(groups, group_id[1]) ELSE 0
    IN  IF byId = 0 /\ TruthyText(name) THEN FirstByName(groups, name[1])
        ELSE byId

\* langlist_to_strdict: a later pair for a language replaces an earlier one
langlist_to_strdict(lst) ==
    {lst[k] : k \in {n \in DOMAIN lst :
                        \A m \in (n + 1)..Len(lst) : lst[m][1] # lst[n][1]}}

\* edit_group(group) under the options o
edit_group(group, o) ==
    [id |-> group.id,
     name |-> IF TruthyText(o.name) THEN o.name[1] ELSE group.name,
     desc |-> IF TruthyStr(o.description) THEN o.description ELSE group.desc,
     display_order |-> IF TruthyInt(o.display_order) THEN o.display_order
                       ELSE group.display_order,
     uservisible |-> IF o.user_visible # None THEN o.user_visible[1]
                     ELSE group.uservisible,
     name_by_lang |-> IF TruthyList(o.translated_name)
                      THEN langlist_to_strdict(o.translated_name)
                      ELSE group.name_by_lang,
     desc_by_lang |-> IF TruthyList(o.translated_description)
                      THEN langlist_to_strdict(o.translated_description)
                      ELSE group.desc_by_lang]

(***************************************************************************)
(* The run of the command: configure, then run.                            *)
(***************************************************************************)
\* the condition of configure's outer "if": an edit is attempted
EditAttempted(o) ==
    \/ TruthyStr(o.description)
    \/ TruthyInt(o.display_order)
    \/ TruthyList(o.translated_name)
    \/ TruthyList(o.translated_description)
    \/ o.user_visible # None

\* configure's handling of --merge
MergeOption(o) ==
    IF TruthyStr(o.merge)
    THEN [o EXCEPT !.load = <<o.merge[1]>> \o @, !.save = Append(@, o.merge[1])]
    ELSE o

Configure ==
    /\ pc = "configure"
    /\ opts' = MergeOption(opts)
    /\ IF EditAttempted(opts') /\ ~TruthyText(opts'.id) /\ ~TruthyText(opts'.name)
       THEN pc' = "failed" /\ err' = "GroupRequiredForEdit"
       ELSE pc' = "load" /\ err' = err
    /\ UNCHANGED <<args, comps, li, si, file_loaded, out, warnings, errors>>
    /\ UNCHANGED valVars

\* load_input_files losing what was loaded when a later file fails
LoadFileDropsOnError ==
    /\ pc = "load"
    /\ li <= Len(opts.load)
    /\ \E r \in fromxml_f(opts.load[li]) :
          IF r.ok
          THEN /\ comps' = Merge(comps, r.groups)
               /\ file_loaded' = TRUE
               /\ warnings' = warnings
          ELSE /\ warnings' = Append(warnings, opts.load[li])
               /\ comps' = <<>>
               /\ UNCHANGED file_loaded
    /\ li' = li + 1
    /\ UNCHANGED <<args, opts, pc, err, si, out, errors>>
    /\ UNCHANGED valVars

\* one iteration of load_input_files' loop
LoadFile ==
    /\ pc = "load"
    /\ li <= Len(opts.load)
    /\ \E r \in fromxml_f(opts.load[li]) :
          IF r.ok
          THEN /\ comps' = Merge(comps, r.groups)
               /\ file_loaded' = TRUE
               /\ warnings' = warnings
          ELSE /\ warnings' = Append(warnings, opts.load[li])
               /\ UNCHANGED <<comps, file_loaded>>
    /\ li' = li + 1
    /\ UNCHANGED <<args, opts, pc, err, si, out, errors>>
    /\ UNCHANGED valVars

\* CreateGroup without the check of the generated id against the collection
CreateGroupUnchecked(groups, o) ==
    IF o.remove THEN Raised("CannotRemoveFromNonexistentGroup")
    ELSE IF TruthyText(o.id)
    THEN Returned([NewGroup EXCEPT !.id = o.id[1], !.name = o.id[1]])
    ELSE LET gid == text_to_id(o.name[1])
         IN  IF ~gid.ok THEN gid
             ELSE Returned([NewGroup EXCEPT !.id = gid.val])

\* the group the command creates when find_group found none: a result whose
\* val is the new group, or the error raised
CreateGroup(groups, o) ==
    IF o.remove THEN Raised("CannotRemoveFromNonexistentGroup")
    ELSE IF TruthyText(o.id)
    THEN Returned([NewGroup EXCEPT !.id = o.id[1], !.name = o.id[1]])
    ELSE LET gid == text_to_id(o.name[1])
         IN  IF ~gid.ok THEN gid
             ELSE IF find_group(groups, <<gid.val>>, None) # 0
             THEN Raised("DuplicateDerivedIdentifier")
             ELSE Returned([NewGroup EXCEPT !.id = gid.val])

\* the new group appended before the checks that raise
AfterRaiseAppended(groups) == Append(groups, NewGroup)

\* the collection when creating the group raised: every raise of run() comes
\* before self.comps.groups.append(group)
AfterRaise(groups) == groups

\* run(), from the end of load_input_files to the call of save_output_files
EditStep ==
    /\ pc = "load"
    /\ li > Len(opts.load)
    /\ IF TruthyText(opts.id) \/ TruthyText(opts.name)
       THEN LET k == find_group(comps, opts.id, opts.name)
                made == CreateGroup(comps, opts)
            IN  IF k # 0
                THEN /\ comps' = [comps EXCEPT ![k] = edit_group(@, opts)]
                     /\ pc' = "save" /\ err' = err
                ELSE IF made.ok
                THEN /\ comps' = Append(comps, edit_group(made.val, opts))
                     /\ pc' = "save" /\ err' = err
                ELSE /\ pc' = "failed" /\ err' = made.exc
                     /\ comps' = AfterRaise(comps)
       ELSE /\ pc' = "save"
            /\ UNCHANGED <<comps, err>>
    /\ UNCHANGED <<args, opts, li, si, file_loaded, out, warnings, errors>>
    /\ UNCHANGED valVars

\* what a write or a print leaves behind
Written(kind, dest, groups) == [kind |-> kind, dest |-> dest, content |-> groups]

\* one iteration of save_output_files' loop.  After XMLGenError the list
\* "errors" holds the exception object, and ''.join(errors) raises TypeError.
SaveFile ==
    /\ pc = "save"
    /\ si <= Len(opts.save)
    /\ \E r \in xml_f :
          IF r = "XMLGenError"
          THEN /\ pc' = "failed" /\ err' = "TypeError"
               /\ UNCHANGED <<out, errors>>
          ELSE /\ out' = Append(out, Written("file", opts.save[si], comps))
               /\ errors' = IF r = "log" THEN Append(errors, opts.save[si])
                            ELSE errors
               /\ UNCHANGED <<pc, err>>
    /\ si' = si + 1
    /\ UNCHANGED <<args, opts, comps, li, file_loaded, warnings>>
    /\ UNCHANGED valVars

\* run()'s last statement printing only on --print
PrintStepOnlyOnRequest ==
    /\ pc = "save"
    /\ si > Len(opts.save)
    /\ out' = IF opts.print
              THEN Append(out, Written("stdout", "", comps))
              ELSE out
    /\ pc' = "done"
    /\ UNCHANGED <<args, opts, err, comps, li, si, file_loaded, warnings, errors>>
    /\ UNCHANGED valVars

\* run()'s last statement, after save_output_files has returned
PrintStep ==
    /\ pc = "save"
    /\ si > Len(opts.save)
    /\ out' = IF opts.print \/ ~TruthyList(opts.save)
              THEN Append(out, Written("stdout", "", comps))
              ELSE out
    /\ pc' = "done"
    /\ UNCHANGED <<args, opts, err, comps, li, si, file_loaded, warnings, errors>>
    /\ UNCHANGED valVars

\* the validators are not running
ValIdle == value = <<>> /\ applied = "" /\ result = Raised("")

Init ==
    /\ args \in ArgSpace
    /\ opts = ParseArgs(args)
    /\ pc = "configure"
    /\ err = ""
    /\ comps = <<>>
    /\ li = 1
    /\ si = 1
    /\ file_loaded = FALSE
    /\ out = <<>>
    /\ warnings = <<>>
    /\ errors = <<>>
    /\ ValIdle

Next == Configure \/ LoadFile \/ EditStep \/ SaveFile \/ PrintStep

Spec == Init /\ [][Next]_vars

(***************************************************************************)
(* The validators on their own: every argument string up to MaxLen over a  *)
(* small alphabet, given to each of the three functions.                   *)
(***************************************************************************)
ValChars == {"e", "H", ":", "!", "\n"}

NoArgs ==
    [load |-> <<>>, save |-> <<>>, merge |-> None, print |-> FALSE,
     id |-> None, name |-> None, description |-> None,
     display_order |-> None, translated_name |-> <<>>,
     translated_description |-> <<>>, visible |-> "", remove |-> FALSE]

\* the command is not running
RunIdle ==
    /\ args = NoArgs
    /\ opts = ParseArgs(NoArgs)
    /\ pc = "idle"
    /\ err = ""
    /\ comps = <<>>
    /\ li = 1
    /\ si = 1
    /\ file_loaded = FALSE
    /\ out = <<>>
    /\ warnings = <<>>
    /\ errors = <<>>

ApplyTranslationType ==
    /\ applied = ""
    /\ applied' = "translation_type"
    /\ result' = translation_type(value)
    /\ UNCHANGED value
    /\ UNCHANGED runVars

ApplyTextToId ==
    /\ applied = ""
    /\ applied' = "text_to_id"
    /\ result' = text_to_id(value)
    /\ UNCHANGED value
    /\ UNCHANGED runVars

ApplyGroupIdType ==
    /\ applied = ""
    /\ applied' = "group_id_type"
    /\ result' = group_id_type(value)
    /\ UNCHANGED value
    /\ UNCHANGED runVars

InitValidate ==
    /\ value \in SeqsUpTo(ValChars, MaxLen)
    /\ applied = ""
    /\ result = Raised("")
    /\ RunIdle

NextValidate == ApplyTranslationType \/ ApplyTextToId \/ ApplyGroupIdType

SpecValidate == InitValidate /\ [][NextValidate]_vars

(***************************************************************************)
(* Properties.                                                             *)
(***************************************************************************)
\* validate_language_tag: non-empty, every character in [-a-zA-Z0-9_.@]
ValidLanguageTag(s) == s # <<>> /\ \A k \in DOMAIN s : s[k] \in RE_LANG_CLASS

\* C1: translation_type splits on the first ':' only: an argument with a ':'
\* whose part before the first ':' is a valid language tag is accepted and
\* yields (that part, everything after the first ':'), and the format error
\* is raised only for an argument with no ':' at all.
C1_SplitsOnFirstColonOnly ==
    applied = "translation_type" =>
        LET k == FirstIndex(value, ":")
        IN  /\ (k # 0 /\ ValidLanguageTag(SubSeq(value, 1, k - 1)))
                   => result = Returned(<<SubSeq(value, 1, k - 1),
                                          SubSeq(value, k + 1, Len(value))>>)
            /\ result.exc = "InvalidTranslationFormat" => k = 0

\* the fatal errors the command raises by design, all before anything is saved
DesignedErrors ==
    {"GroupRequiredForEdit", "CannotRemoveFromNonexistentGroup",
     "EmptyDerivedIdentifier", "DuplicateDerivedIdentifier"}

\* C2: a failure to encode or write one save destination is reported and
\* does not abort the run: the run never ends inside the Save step, and a
\* run ends only after every destination of the save list was attempted.
C2_SaveContinuesAfterFailure ==
    /\ pc = "failed" => err \in DesignedErrors
    /\ pc = "done" => si = Len(opts.save) + 1

\* C3: editing a located group changes only the fields whose option is on
\* the command line; every other field keeps its value, user_visible
\* included when neither --user-visible nor --not-user-visible is given.
C3_EditChangesOnlySuppliedFields ==
    [][(pc = "load" /\ pc' = "save" /\ find_group(comps, opts.id, opts.name) # 0)
        => LET k == find_group(comps, opts.id, opts.name)
           IN  /\ Len(comps') = Len(comps)
               /\ comps'[k].id = comps[k].id
               /\ args.name = None => comps'[k].name = comps[k].name
               /\ args.description = None => comps'[k].desc = comps[k].desc
               /\ args.display_order = None
                      => comps'[k].display_order = comps[k].display_order
               /\ args.visible = "" => comps'[k].uservisible = comps[k].uservisible
               /\ args.visible = "--not-user-visible" => ~comps'[k].uservisible
               /\ args.translated_name = <<>>
                      => comps'[k].name_by_lang = comps[k].name_by_lang
               /\ args.translated_description = <<>>
                      => comps'[k].desc_by_lang = comps[k].desc_by_lang]_vars

\* an edit-only option is on the command line
EditOnlyGiven(a) ==
    \/ a.description # None
    \/ a.display_order # None
    \/ a.translated_name # <<>>
    \/ a.translated_description # <<>>
    \/ a.visible # ""

\* C4: configure raises GroupRequiredForEdit if and only if an edit-only
\* option is given while neither --id nor --name is given.
C4_GroupRequiredIffEditWithoutGroup ==
    pc \notin {"configure", "idle"} =>
        (err = "GroupRequiredForEdit"
            <=> (EditOnlyGiven(args) /\ args.id = None /\ args.name = None))

\* run() is at the statement after load_input_files, with a group requested
AtLocate ==
    /\ pc = "load"
    /\ li > Len(opts.load)
    /\ args.id # None \/ args.name # None

\* the least index of a group of the collection whose id is gid (0: none)
LeastWithId(groups, gid) ==
    IF \E m \in DOMAIN groups : groups[m].id = gid
    THEN CHOOSE m \in DOMAIN groups :
             groups[m].id = gid /\ \A n \in DOMAIN groups : groups[n].id = gid => m <= n
    ELSE 0

\* the least index of a group of the collection whose name is nm (0: none)
LeastWithName(groups, nm) ==
    IF \E m \in DOMAIN groups : groups[m].name = nm
    THEN CHOOSE m \in DOMAIN groups :
             groups[m].name = nm /\ \A n \in DOMAIN groups : groups[n].name = nm => m <= n
    ELSE 0

\* the group the command line designates in the collection, as the spec
\* states it: the first id match, else the first name match, else none
Designated(groups, a) ==
    LET byId == IF a.id # None THEN LeastWithId(groups, a.id[1]) ELSE 0
        byName == IF a.name # None THEN LeastWithName(groups, a.name[1]) ELSE 0
    IN  IF byId # 0 THEN byId ELSE byName

\* C5: find(id, name) is the first group with the id when there is one,
\* else the first group with the name, else none; and the edit is applied to
\* that group alone, so that of two groups with the requested id the
\* first-loaded one is edited and the later one stays as it was.
C5_FindPrefersFirstIdThenFirstName ==
    [][AtLocate =>
        LET t == Designated(comps, args)
        IN  /\ find_group(comps, opts.id, opts.name) = t
            /\ t # 0 =>
                 /\ pc' = "save"
                 /\ Len(comps') = Len(comps)
                 /\ \A m \in DOMAIN comps : m # t => comps'[m] = comps[m]
                 /\ args.description # None => comps'[t].desc = args.description]_vars

C5_Witness ==
    /\ pc = "save"
    /\ args.id = <<IdCore>> /\ args.name = <<NameCore>>
    /\ args.description = <<"X">>
    /\ Len(comps) = 3
    /\ comps[1] = GroupDt
    /\ comps[2].id = IdCore /\ comps[2].desc = <<"X">>
    /\ comps[3] = GroupCoreB

\* the name lowercased with every character outside -a-z0-9_.: removed
Derived(nm) == SelectSeq(Lower(nm), LAMBDA c : c \in RE_GROUP_ID_VALID)

\* the state after a step holds the collection with one group appended,
\* whose id is gid and whose name is nm, and the run goes on
AppendedOne(gid, nm) ==
    /\ pc' = "save"
    /\ Len(comps') = Len(comps) + 1
    /\ SubSeq(comps', 1, Len(comps)) = comps
    /\ comps'[Len(comps')].id = gid
    /\ comps'[Len(comps')].name = nm

\* the run fails with error e and leaves the collection as it was
FailsWith(e) == pc' = "failed" /\ err' = e /\ comps' = comps

\* the case of C6: no group is designated and remove mode is off
AtCreate == AtLocate /\ Designated(comps, args) = 0 /\ ~args.remove

\* C6 as stated: when find yields no group and remove mode is off, the run
\* appends exactly one group: id and name as given (the name defaulting to
\* the id), or with only --name the derived id and the given name, failing
\* with EmptyDerivedIdentifier exactly when no character survives.
C6_CreateAppendsOneGroup ==
    [][AtCreate =>
        IF args.id # None
        THEN AppendedOne(args.id[1],
                         IF args.name # None THEN args.name[1] ELSE args.id[1])
        ELSE IF Derived(args.name[1]) = <<>>
        THEN FailsWith("EmptyDerivedIdentifier")
        ELSE AppendedOne(Derived(args.name[1]), args.name[1])]_vars

\* C6 amended: as C6, except that with only --name, when the derived id is
\* the id of a group of the collection, the run fails with
\* DuplicateDerivedIdentifier and appends nothing.  "D T" derives "dt".
C6_CreateAppendsOneGroupUnlessDuplicate ==
    [][AtCreate =>
        /\ IF args.id # None
           THEN AppendedOne(args.id[1],
                            IF args.name # None THEN args.name[1] ELSE args.id[1])
           ELSE IF Derived(args.name[1]) = <<>>
           THEN FailsWith("EmptyDerivedIdentifier")
           ELSE IF LeastWithId(comps, Derived(args.name[1])) # 0
           THEN FailsWith("DuplicateDerivedIdentifier")
           ELSE AppendedOne(Derived(args.name[1]), args.name[1])
        /\ (args.id = None /\ args.name = <<NameDT>> /\ pc' = "save")
              => comps'[Len(comps')].id = <<"d", "t">>]_vars

C6_Witness ==
    /\ pc = "save"
    /\ args.id = None /\ args.name = <<NameDT>>
    /\ args.load = <<>> /\ args.merge = None
    /\ Len(comps) = 1
    /\ comps[1].id = <<"d", "t">>
    /\ comps[1].name = NameDT

\* the fatal errors of run()
RunErrors ==
    {"EmptyDerivedIdentifier", "DuplicateDerivedIdentifier",
     "CannotRemoveFromNonexistentGroup"}

\* C7: a fatal error of the run comes before any output: at the step that
\* raises it nothing has been written or printed, the step leaves the
\* collection as loaded, and no step follows it.
C7_FatalErrorBeforeAnyOutput ==
    [][/\ err' \in RunErrors => (out = <<>> /\ out' = <<>> /\ comps' = comps)
       /\ err \notin RunErrors]_vars

C7_Witness ==
    /\ pc = "failed"
    /\ err = "DuplicateDerivedIdentifier"
    /\ args.name = <<NameDT>>
    /\ opts.save # <<>> /\ opts.print
    /\ comps = <<GroupDt, GroupCore>>
    /\ out = <<>>

\* the groups of the first n files of the list, those at the indexes in bad
\* left out
RECURSIVE ConcatGood(_, _, _)
ConcatGood(files, bad, n) ==
    IF n = 0 THEN <<>>
    ELSE ConcatGood(files, bad, n - 1)
         \o (IF n \in bad THEN <<>> ELSE FileGroups(files[n]))

\* the names of the files at the indexes in bad among the first n, in order
RECURSIVE NamesOfBad(_, _, _)
NamesOfBad(files, bad, n) ==
    IF n = 0 THEN <<>>
    ELSE NamesOfBad(files, bad, n - 1)
         \o (IF n \in bad THEN <<files[n]>> ELSE <<>>)

\* C8: during and after Load the collection is the concatenation, in
\* load-list order, of the groups of the sources read so far that parsed,
\* duplicates kept; a source that failed adds a warning and nothing else;
\* --merge F puts F first in the load list and last in the save list.
C8_LoadConcatenatesParsedSources ==
    /\ pc \in {"load", "save", "done", "failed"} /\ err # "GroupRequiredForEdit"
          => /\ opts.load = (IF args.merge # None THEN <<args.merge[1]>> ELSE <<>>)
                            \o args.load
             /\ opts.save = args.save
                            \o (IF args.merge # None THEN <<args.merge[1]>> ELSE <<>>)
    /\ pc = "load"
          => /\ err = ""
             /\ \E bad \in SUBSET (1..(li - 1)) :
                   /\ warnings = NamesOfBad(opts.load, bad, li - 1)
                   /\ comps = ConcatGood(opts.load, bad, li - 1)
                   /\ file_loaded <=> bad # 1..(li - 1)

C8_Witness ==
    /\ pc = "load"
    /\ args.merge = <<"a.xml">> /\ args.load = <<"b.xml">>
    /\ li = 3
    /\ warnings = <<"a.xml">>
    /\ comps = <<GroupCoreB>>

\* C9: a run that ends without a fatal error prints the collection if and
\* only if --print was given or nothing is to be saved (no --save and no
\* --merge); the print is the last output, made after every save
\* destination was attempted; what is printed and what is written to each
\* destination is the final collection.
C9_PrintIffRequestedOrNothingSaved ==
    /\ \A k \in DOMAIN out :
          out[k].kind = "stdout"
             => pc = "done" /\ k = Len(out) /\ si = Len(opts.save) + 1
    /\ pc = "done"
          => /\ (\E k \in DOMAIN out : out[k].kind = "stdout")
                   <=> (args.print \/ (args.save = <<>> /\ args.merge = None))
             /\ \A k \in DOMAIN out : out[k].content = comps
             /\ si = Len(opts.save) + 1

C9_Witness ==
    /\ pc = "done"
    /\ ~args.print /\ args.save = <<>> /\ args.merge = None
    /\ Len(comps) = 2
    /\ out = <<Written("stdout", "", comps)>>

DistinctIds(groups) ==
    \A m, n \in DOMAIN groups : groups[m].id = groups[n].id => m = n

\* C10: a run never introduces a duplicate id: the step after Load appends
\* at most one group, whose id differs from every id of the collection,
\* keeps the id of every existing group, and so keeps pairwise distinct ids
\* pairwise distinct; the later steps leave the collection as it is.
C10_NoDuplicateIdIntroduced ==
    [][/\ (pc = "load" /\ li > Len(opts.load))
            => /\ Len(comps') \in {Len(comps), Len(comps) + 1}
               /\ \A k \in DOMAIN comps : comps'[k].id = comps[k].id
               /\ Len(comps') = Len(comps) + 1
                     => \A k \in DOMAIN comps : comps[k].id # comps'[Len(comps')].id
               /\ DistinctIds(comps) => DistinctIds(comps')
       /\ pc = "save" => comps' = comps]_vars

C10_Witness ==
    /\ pc = "save"
    /\ args.id = None /\ args.name = <<NameDT>>
    /\ Len(comps) = 2
    /\ comps[1] = GroupCoreB
    /\ comps[2].id = IdDt

====
